---- MODULE Spec2Model ----
(***************************************************************************)
(* ValyrianGamesLeaderboard: the leaderboard file, the games directory and *)
(* the operations that write them (update_leaderboard.py,                  *)
(* import_tournament_results.py, app/utils/trueskill_calculator.py) and    *)
(* read them (app/models.py).                                              *)
(*                                                                         *)
(* Conventions                                                             *)
(*  - an optional JSON field is a sequence of length 0 (absent) or 1;      *)
(*  - dates are ISO strings compared as strings by the code; here they are *)
(*    positive integers, and the empty string is EmptyDateKey;             *)
(*  - mu and sigma are integers (fixed point); the averages are exact      *)
(*    rationals <<numerator, denominator>> in lowest terms;                *)
(*  - last_updated (a clock reading) is not modelled.                      *)
(***************************************************************************)
EXTENDS Integers, Sequences, FiniteSets, TLC

VARIABLES
    games,      \* data/games: game id -> stored game record
    lbFile,     \* data/leaderboard.json: NoFile, Truncated or [models |-> ...]
    last,       \* the last finished operation: what it was given and returned
    nops,       \* operations started so far
    writer,     \* the running write operation, step by step (SpecConc)
    seen,       \* what get_leaderboard_data last returned (SpecConc)
    updaters    \* two callers of update_leaderboard_from_game (SpecUpdaters)

vars == <<games, lbFile, last, nops, writer, seen, updaters>>

----------------------------------------------------------------------------
(* Bounds of the model *)

MaxOps == 2


Dates == {1, 2}

----------------------------------------------------------------------------
(* Helpers on sequences and rationals *)

Range(s) == {s[i] : i \in DOMAIN s}

Max2(a, b) == IF a >= b THEN a ELSE b

Abs(x) == IF x < 0 THEN -x ELSE x

RECURSIVE Gcd(_, _)
Gcd(a, b) == IF b = 0 THEN a ELSE Gcd(b, a % b)

\* a Python float holding n/d, kept in lowest terms with d > 0
Rat(n, d) == LET g == Gcd(Abs(n), d) IN IF g = 0 THEN <<0, 1>> ELSE <<n \div g, d \div g>>

Zero == <<0, 1>>

Some(x) == <<x>>

None == <<>>

----------------------------------------------------------------------------
(* app/utils/trueskill_calculator.py *)

\* trueskill.TrueSkill() defaults: mu 25, sigma 25/3 (here in whole points)
DefaultMu == 25

DefaultSigma == 8

NoFile == [kind |-> "nofile", models |-> <<>>]

Truncated == [kind |-> "truncated", models |-> <<>>]

FileOf(models) == [kind |-> "json", models |-> models]

\* _load_leaderboard: the stored models, or an empty leaderboard when the
\* file does not exist
LoadLeaderboard(file) == IF file.kind = "nofile" THEN <<>> ELSE file.models

\* the entry appended for a competitor that is not in the leaderboard yet
NewEntry(name) ==
    [name |-> name, mu |-> DefaultMu, sigma |-> DefaultSigma,
     games_played |-> 0, wins |-> 0, losses |-> 0, draws |-> 0,
     conservative_rating |-> DefaultMu - 3 * DefaultSigma,
     avg_total_cost |-> Zero, avg_tokens_per_second |-> Zero]

HasEntry(models, name) == \E k \in DOMAIN models : models[k].name = name

\* next(m for m in leaderboard['models'] if m['name'] == model_name)
EntryIndex(models, name) ==
    CHOOSE k \in DOMAIN models :
        /\ models[k].name = name
        /\ \A j \in 1..(k - 1) : models[j].name # name

\* a first loop that appends an entry for every participant, known or not
RECURSIVE EnsureEntriesAlways(_, _, _)
EnsureEntriesAlways(models, participants, i) ==
    IF i > Len(participants) THEN models
    ELSE EnsureEntriesAlways(Append(models, NewEntry(participants[i])), participants, i + 1)

\* the first loop of update_ratings_from_game: unknown participants are
\* appended with the default rating, in list order
RECURSIVE EnsureEntries(_, _, _)
EnsureEntries(models, participants, i) ==
    IF i > Len(participants) THEN models
    ELSE IF HasEntry(models, participants[i])
         THEN EnsureEntries(models, participants, i + 1)
         ELSE EnsureEntries(Append(models, NewEntry(participants[i])), participants, i + 1)

\* ratings[model_name] for each participant, as a list of one-member teams
Teams(models, participants) ==
    [i \in DOMAIN participants |->
        LET e == models[EntryIndex(models, participants[i])]
        IN  [mu |-> e.mu, sigma |-> e.sigma]]

\* One pairwise term of the rating update of player i against player j.
PairShift(pi, pj, ri, rj) ==
    IF ri < rj THEN (IF pi.mu > pj.mu THEN pi.sigma \div 2 ELSE pi.sigma)
    ELSE IF ri > rj THEN (IF pi.mu < pj.mu THEN -(pi.sigma \div 2) ELSE -pi.sigma)
    ELSE IF pi.mu < pj.mu THEN pi.sigma \div 4
    ELSE IF pi.mu > pj.mu THEN -(pi.sigma \div 4)
    ELSE 0

RECURSIVE SumShift(_, _, _, _)
SumShift(teams, ranks, i, j) ==
    IF j > Len(teams) THEN 0
    ELSE (IF j = i THEN 0 ELSE PairShift(teams[i], teams[j], ranks[i], ranks[j]))
         + SumShift(teams, ranks, i, j + 1)

\* self.env.rate(teams, ranks=ranks) of the trueskill library: a
\* deterministic function of the priors and the ranks.  The library's
\* message passing is replaced by an integer update with the same shape: a
\* better rank raises mu, a worse one lowers it, by an amount that depends on
\* the player's own sigma and on the priors of the others; sigma shrinks.
RateCanRun(teams) == Len(teams) >= 2

Rate(teams, ranks) ==
    [i \in DOMAIN teams |->
        [mu |-> teams[i].mu + SumShift(teams, ranks, i, 1),
         sigma |-> Max2(1, teams[i].sigma - 1)]]

\* the distinct rank values that are better, each tie group counted once
BetterRankValues(ranks, i) == Cardinality({ranks[j] : j \in {x \in DOMAIN ranks : ranks[x] < ranks[i]}})

\* better_ranks = [r for r in ranks if r < rank]
BetterRanks(ranks, i) == Cardinality({j \in DOMAIN ranks : ranks[j] < ranks[i]})

\* ranks that are not better, the player's own included
WorseRanksInclusive(ranks, i) == Cardinality({j \in DOMAIN ranks : ranks[j] >= ranks[i]})

\* worse_ranks = [r for r in ranks if r > rank]
WorseRanks(ranks, i) == Cardinality({j \in DOMAIN ranks : ranks[j] > ranks[i]})

\* ranks.index(r): the first position holding the value r
FirstIndex(ranks, r) ==
    CHOOSE k \in DOMAIN ranks : ranks[k] = r /\ \A j \in 1..(k - 1) : ranks[j] # r

\* equal_ranks = [r for r in ranks if r == rank and ranks.index(r) != i]
EqualRanks(ranks, i) ==
    Cardinality({j \in DOMAIN ranks :
                    ranks[j] = ranks[i] /\ FirstIndex(ranks, ranks[j]) # i})

\* (current_avg * games_played + new_value) / (games_played + 1)
RunningAverage(avg, gp, x) ==
    Rat(avg[1] * gp * x[2] + x[1] * avg[2], avg[2] * x[2] * (gp + 1))

\* _update_performance_metrics: called with the entry whose games_played has
\* already been incremented for this game
UpdatePerformanceMetrics(entry, name, game) ==
    IF name \notin DOMAIN game.metrics THEN entry
    ELSE LET m  == game.metrics[name]
             gp == entry.games_played
         IN  IF gp = 0
             THEN [entry EXCEPT !.avg_total_cost = m.total_cost,
                                !.avg_tokens_per_second = m.tokens_per_second]
             ELSE [entry EXCEPT
                     !.avg_total_cost = RunningAverage(@, gp, m.total_cost),
                     !.avg_tokens_per_second = RunningAverage(@, gp, m.tokens_per_second)]

\* a loop body that leaves conservative_rating as it was
UpdateEntryStaleConservative(entry, name, rating, ranks, i, game) ==
    UpdatePerformanceMetrics(
        [entry EXCEPT !.mu = rating.mu,
                      !.sigma = rating.sigma,
                      !.games_played = @ + 1,
                      !.wins = @ + WorseRanks(ranks, i),
                      !.losses = @ + BetterRanks(ranks, i),
                      !.draws = @ + EqualRanks(ranks, i)],
        name, game)

\* the body of the second loop for participant i
UpdateEntry(entry, name, rating, ranks, i, game) ==
    UpdatePerformanceMetrics(
        [entry EXCEPT !.mu = rating.mu,
                      !.sigma = rating.sigma,
                      !.games_played = @ + 1,
                      !.wins = @ + WorseRanks(ranks, i),
                      !.losses = @ + BetterRanks(ranks, i),
                      !.draws = @ + EqualRanks(ranks, i),
                      !.conservative_rating = rating.mu - 3 * rating.sigma],
        name, game)

\* for i, model_name in enumerate(participants): ...
RECURSIVE ApplyResults(_, _, _, _, _, _)
ApplyResults(models, participants, ranks, updated, game, i) ==
    IF i > Len(participants) THEN models
    ELSE LET k == EntryIndex(models, participants[i])
         IN  ApplyResults(
                 [models EXCEPT ![k] = UpdateEntry(@, participants[i], updated[i],
                                                   ranks, i, game)],
                 participants, ranks, updated, game, i + 1)

\* the insertion of an unstable sort: an entry goes before those with its mu
RECURSIVE InsertByMuBeforeEqual(_, _)
InsertByMuBeforeEqual(sorted, e) ==
    IF sorted = <<>> THEN <<e>>
    ELSE IF Head(sorted).mu > e.mu
         THEN <<Head(sorted)>> \o InsertByMuBeforeEqual(Tail(sorted), e)
         ELSE <<e>> \o sorted

\* leaderboard['models'].sort(key=mu, reverse=True): stable, descending
RECURSIVE InsertByMu(_, _)
InsertByMu(sorted, e) ==
    IF sorted = <<>> THEN <<e>>
    ELSE IF Head(sorted).mu >= e.mu
         THEN <<Head(sorted)>> \o InsertByMu(Tail(sorted), e)
         ELSE <<e>> \o sorted

RECURSIVE SortByMu(_)
SortByMu(models) ==
    IF models = <<>> THEN <<>>
    ELSE InsertByMu(SortByMu(SubSeq(models, 1, Len(models) - 1)), models[Len(models)])

\* game_data.get('participants', []) and game_data.get('ranks', [])
GetList(field) == IF field = None THEN <<>> ELSE field[1]

\* update_ratings_from_game gets as far as saving: json.load reads the file,
\* the check of participants and ranks passes and the library accepts the teams
UpdateAccepts(file, game) ==
    LET participants == GetList(game.participants)
        ranks == GetList(game.ranks)
    IN  /\ file.kind # "truncated"
        /\ participants # <<>>
        /\ ranks # <<>>
        /\ Len(participants) = Len(ranks)
        /\ RateCanRun(participants)

\* an update that counts the game for every entry of the leaderboard
UpdatedModelsCountingAll(models, game) ==
    LET participants == GetList(game.participants)
        ranks == GetList(game.ranks)
        withNew == EnsureEntries(models, participants, 1)
        updated == Rate(Teams(withNew, participants), ranks)
        saved == SortByMu(ApplyResults(withNew, participants, ranks, updated, game, 1))
    IN  [k \in DOMAIN saved |->
            IF saved[k].name \in Range(participants) THEN saved[k]
            ELSE [saved[k] EXCEPT !.games_played = @ + 1]]

\* update_ratings_from_game, from the loaded models to the models it saves
UpdatedModels(models, game) ==
    LET participants == GetList(game.participants)
        ranks == GetList(game.ranks)
        withNew == EnsureEntries(models, participants, 1)
        updated == Rate(Teams(withNew, participants), ranks)
    IN  SortByMu(ApplyResults(withNew, participants, ranks, updated, game, 1))

\* update_ratings_from_game on the leaderboard file: raises (ok = FALSE, file
\* untouched) or saves the new models
UpdateRatingsFromGame(file, game) ==
    IF UpdateAccepts(file, game)
    THEN [ok |-> TRUE, file |-> FileOf(UpdatedModels(LoadLeaderboard(file), game))]
    ELSE [ok |-> FALSE, file |-> file]

----------------------------------------------------------------------------
(* scripts/update_leaderboard.py *)

\* x.get('date', ''): every date string sorts after the empty string
EmptyDateKey == 0

NoMetrics == [n \in {} |-> Zero]

\* a validation that only looks for the two required fields
ValidateGameDataFieldsOnly(game) ==
    /\ game.participants # None
    /\ game.ranks # None

\* validate_game_data
ValidateGameData(game) ==
    /\ game.participants # None
    /\ game.ranks # None
    /\ Len(game.participants[1]) = Len(game.ranks[1])

\* str(uuid.uuid4()): an id no stored game has
FreshUuid(gs) == <<"uuid", Cardinality({id \in DOMAIN gs : id[1] = "uuid"}) + 1, "">>

\* save_game_result, first half: the id and the date are filled in when absent
CompleteGame(gs, game, now) ==
    [game EXCEPT !.game_id = IF @ = None THEN Some(FreshUuid(gs)) ELSE @,
                 !.date = IF @ = None THEN Some(now) ELSE @]

\* save_game_result, second half: GAMES_DIR/<game_id>.json is (over)written
WriteGameFile(gs, game) == (game.game_id[1] :> game) @@ gs

DateKey(game) == IF game.date = None THEN EmptyDateKey ELSE game.date[1]

\* the insertion of an unstable sort: a record goes before those with its key
RECURSIVE InsertByDateUnstable(_, _)
InsertByDateUnstable(sorted, g) ==
    IF sorted = <<>> THEN <<g>>
    ELSE IF DateKey(Head(sorted)) < DateKey(g)
         THEN <<Head(sorted)>> \o InsertByDateUnstable(Tail(sorted), g)
         ELSE <<g>> \o sorted

\* games.sort(key=date): stable, ascending
RECURSIVE InsertByDate(_, _)
InsertByDate(sorted, g) ==
    IF sorted = <<>> THEN <<g>>
    ELSE IF DateKey(Head(sorted)) <= DateKey(g)
         THEN <<Head(sorted)>> \o InsertByDate(Tail(sorted), g)
         ELSE <<g>> \o sorted

\* no sort: the games stay in the order of the listing
SortByDateSkipped(list) == list

RECURSIVE SortByDate(_)
SortByDate(list) ==
    IF list = <<>> THEN <<>>
    ELSE InsertByDate(SortByDate(SubSeq(list, 1, Len(list) - 1)), list[Len(list)])

\* the orders in which GAMES_DIR.glob('*.json') may list the files
Orders(gs) ==
    {o \in [1..Cardinality(DOMAIN gs) -> DOMAIN gs] :
        \A i, j \in DOMAIN o : i # j => o[i] # o[j]}

\* load_all_games, given the order in which glob lists the files
LoadAllGames(gs, order) == SortByDate([i \in DOMAIN order |-> gs[order[i]]])

\* a loop that ends at the first game that is invalid or whose update raises
RECURSIVE FoldGamesUntilFailure(_, _, _)
FoldGamesUntilFailure(file, list, i) ==
    IF i > Len(list) THEN file
    ELSE IF ~ValidateGameData(list[i]) \/ ~UpdateRatingsFromGame(file, list[i]).ok THEN file
    ELSE FoldGamesUntilFailure(UpdateRatingsFromGame(file, list[i]).file, list, i + 1)

\* the loop of recalculate_leaderboard from game i on: an invalid game and a
\* game whose update raises are skipped
RECURSIVE FoldGames(_, _, _)
FoldGames(file, list, i) ==
    IF i > Len(list) THEN file
    ELSE IF ~ValidateGameData(list[i]) THEN FoldGames(file, list, i + 1)
    ELSE FoldGames(UpdateRatingsFromGame(file, list[i]).file, list, i + 1)

\* a recalculation that does not delete the leaderboard file first
RecalculateLeaderboardOnTop(gs, order, file) ==
    LET list == LoadAllGames(gs, order)
    IN  IF list = <<>> THEN file ELSE FoldGames(file, list, 1)

\* recalculate_leaderboard: the leaderboard file it leaves
RecalculateLeaderboard(gs, order, file) ==
    LET list == LoadAllGames(gs, order)
    IN  IF list = <<>> THEN file ELSE FoldGames(NoFile, list, 1)

\* what recalculate_leaderboard returns is a leaderboard (not None)
RecalculateReturns(gs, order) ==
    \E i \in DOMAIN order :
        ValidateGameData(gs[order[i]]) /\ UpdateAccepts(NoFile, gs[order[i]])

----------------------------------------------------------------------------
(* scripts/import_tournament_results.py *)

\* validate_tournament_data: the error list it returns, in order
MissingFields(t) ==
    (IF t.tournament_info = None THEN <<"Missing required field: tournament_info">> ELSE <<>>)
    \o (IF t.contenders = None THEN <<"Missing required field: contenders">> ELSE <<>>)
    \o (IF t.final_scores = None THEN <<"Missing required field: final_scores">> ELSE <<>>)

ScoredNames(scores) == {scores[k].name : k \in DOMAIN scores}

\* the checks without the last one: scores for non-contenders pass
TournamentErrorsWithoutExtraScores(t) ==
    IF t.tournament_info = None \/ t.contenders = None \/ t.final_scores = None
    THEN <<"Missing required field">>
    ELSE (IF t.tournament_info[1].timestamp = None
          THEN <<"Missing timestamp in tournament_info">> ELSE <<>>)
         \o (IF t.contenders[1] = <<>> THEN <<"No contenders found">> ELSE <<>>)
         \o (IF t.final_scores[1] = <<>> THEN <<"No final scores found">> ELSE <<>>)
         \o (IF \E k \in DOMAIN t.contenders[1] :
                    \A i \in DOMAIN t.final_scores[1] :
                        t.final_scores[1][i].name # t.contenders[1][k]
             THEN <<"Missing scores for contenders">> ELSE <<>>)

TournamentErrors(t) ==
    IF MissingFields(t) # <<>> THEN MissingFields(t)
    ELSE LET contenders == t.contenders[1]
             scores == t.final_scores[1]
         IN  (IF t.tournament_info[1].timestamp = None
              THEN <<"Missing timestamp in tournament_info">> ELSE <<>>)
             \o (IF contenders = <<>> THEN <<"No contenders found">> ELSE <<>>)
             \o (IF scores = <<>> THEN <<"No final scores found">> ELSE <<>>)
             \o (IF \E k \in DOMAIN contenders : contenders[k] \notin ScoredNames(scores)
                 THEN <<"Missing scores for contenders">> ELSE <<>>)
             \o (IF \E k \in DOMAIN scores : scores[k].name \notin Range(contenders)
                 THEN <<"Scores found for non-contenders">> ELSE <<>>)

ValidateTournamentData(t) == TournamentErrors(t) = <<>>

\* sorted(final_scores.items(), key=score, reverse=True): stable, descending
RECURSIVE InsertByScore(_, _)
InsertByScore(sorted, e) ==
    IF sorted = <<>> THEN <<e>>
    ELSE IF Head(sorted).score >= e.score
         THEN <<Head(sorted)>> \o InsertByScore(Tail(sorted), e)
         ELSE <<e>> \o sorted

RECURSIVE SortByScore(_)
SortByScore(scores) ==
    IF scores = <<>> THEN <<>>
    ELSE InsertByScore(SortByScore(SubSeq(scores, 1, Len(scores) - 1)), scores[Len(scores)])

\* a dense ranking: the rank after a tie group is one above the group's rank
RECURSIVE RankOfPositionDense(_, _)
RankOfPositionDense(sorted, i) ==
    IF i = 1 THEN 0
    ELSE IF sorted[i].score < sorted[i - 1].score THEN RankOfPositionDense(sorted, i - 1) + 1
    ELSE RankOfPositionDense(sorted, i - 1)

\* the loop of calculate_ranks_from_scores: ranks of sorted[1..i], 0 = best
RECURSIVE RankOfPosition(_, _)
RankOfPosition(sorted, i) ==
    IF i = 1 THEN 0
    ELSE IF sorted[i].score < sorted[i - 1].score THEN i - 1
    ELSE RankOfPosition(sorted, i - 1)

\* calculate_ranks_from_scores: participant -> rank
CalculateRanksFromScores(scores) ==
    LET sorted == SortByScore(scores)
    IN  [n \in ScoredNames(scores) |->
            RankOfPosition(sorted, CHOOSE i \in DOMAIN sorted : sorted[i].name = n)]

\* the first loop with the attempt count inside the test of the error flag
RECURSIVE SolverTotalsOfCleanAttempts(_, _, _)
SolverTotalsOfCleanAttempts(results, p, i) ==
    IF i = 0
    THEN [total_tokens |-> 0, total_cost |-> 0, total_time |-> 0,
          total_attempts |-> 0, successful_attempts |-> 0]
    ELSE LET acc == SolverTotalsOfCleanAttempts(results, p, i - 1)
             r == results[i]
         IN  IF r.solver # p THEN acc
             ELSE [total_tokens |-> acc.total_tokens + (IF r.error THEN 0 ELSE r.total_tokens),
                   total_cost |-> acc.total_cost + (IF r.error THEN 0 ELSE r.total_cost),
                   total_time |-> acc.total_time + (IF r.error THEN 0 ELSE r.total_time),
                   total_attempts |-> acc.total_attempts + (IF r.error THEN 0 ELSE 1),
                   successful_attempts |->
                       acc.successful_attempts + (IF r.is_correct THEN 1 ELSE 0)]

\* the first loop of aggregate_performance_metrics, for one participant
RECURSIVE SolverTotals(_, _, _)
SolverTotals(results, p, i) ==
    IF i = 0
    THEN [total_tokens |-> 0, total_cost |-> 0, total_time |-> 0,
          total_attempts |-> 0, successful_attempts |-> 0]
    ELSE LET acc == SolverTotals(results, p, i - 1)
             r == results[i]
         IN  IF r.solver # p THEN acc
             ELSE [total_tokens |-> acc.total_tokens + (IF r.error THEN 0 ELSE r.total_tokens),
                   total_cost |-> acc.total_cost + (IF r.error THEN 0 ELSE r.total_cost),
                   total_time |-> acc.total_time + (IF r.error THEN 0 ELSE r.total_time),
                   total_attempts |-> acc.total_attempts + 1,
                   successful_attempts |->
                       acc.successful_attempts + (IF r.is_correct THEN 1 ELSE 0)]

\* num / den if den > 0 else 0.0
Ratio(num, den) == IF den > 0 THEN Rat(num, den) ELSE Zero

\* aggregate_performance_metrics: solvers and challenge creators -> metrics
AggregatePerformanceMetrics(results) ==
    LET solvers == {results[k].solver : k \in DOMAIN results} \ {""}
        creators == {results[k].challenge_creator : k \in DOMAIN results} \ {""}
    IN  [p \in solvers \cup creators |->
            LET t == SolverTotals(results, p, Len(results))
            IN  [total_tokens |-> t.total_tokens,
                 total_cost |-> t.total_cost,
                 total_time |-> t.total_time,
                 total_attempts |-> t.total_attempts,
                 successful_attempts |-> t.successful_attempts,
                 challenges_created |-> IF p \in creators THEN 1 ELSE 0,
                 tokens_per_second |-> Ratio(t.total_tokens, t.total_time),
                 tokens_per_dollar |-> Ratio(t.total_tokens, t.total_cost),
                 success_rate |-> Ratio(t.successful_attempts, t.total_attempts)]]

\* md5 of the file name, first 8 hex digits: the file names of the model have
\* different digests
FileHash(file) == file

\* generate_game_id: the timestamp to the second, then the hash of the file name
GenerateGameId(timestamp, file) == <<"valyrian_tournament", timestamp, FileHash(file)>>

\* convert_tournament_to_game_format (the fields the leaderboard reads)
ConvertTournamentToGameFormat(t) ==
    LET timestamp == t.tournament_info[1].timestamp[1]
        contenders == t.contenders[1]
        scores == t.final_scores[1]
        ranksDict == CalculateRanksFromScores(scores)
        agg == AggregatePerformanceMetrics(t.detailed_results)
    IN  [game_id |-> Some(GenerateGameId(timestamp, t.file)),
         date |-> Some(timestamp),
         participants |-> Some(contenders),
         ranks |-> Some([k \in DOMAIN contenders |-> ranksDict[contenders[k]]]),
         scores |-> Some([k \in DOMAIN contenders |->
                            scores[CHOOSE i \in DOMAIN scores :
                                      scores[i].name = contenders[k]].score]),
         metrics |-> [p \in DOMAIN agg |->
                        [total_cost |-> Rat(agg[p].total_cost, 1),
                         tokens_per_second |-> agg[p].tokens_per_second]]]

CheckGameExistsNever(gs, id) == FALSE

\* check_game_exists
CheckGameExists(gs, id) == id \in DOMAIN gs

\* import_tournament_to_leaderboard: what it returns and the files it leaves
ImportTournamentToLeaderboard(gs, file, t, force, dryRun) ==
    IF ~t.readable \/ ~ValidateTournamentData(t)
    THEN [ok |-> FALSE, games |-> gs, file |-> file]
    ELSE LET game == ConvertTournamentToGameFormat(t)
         IN  IF (CheckGameExists(gs, game.game_id[1]) /\ ~force) \/ dryRun
             THEN [ok |-> TRUE, games |-> gs, file |-> file]
             ELSE LET r == UpdateRatingsFromGame(file, game)
                  IN  [ok |-> r.ok, games |-> WriteGameFile(gs, game), file |-> r.file]

----------------------------------------------------------------------------
(* Inputs of the model *)

NoGame == [game_id |-> None, date |-> None, participants |-> None,
           ranks |-> None, scores |-> None, metrics |-> NoMetrics]

EmptyDir == [id \in {} |-> NoGame]

UserId(s) == <<"user", 0, s>>

Game(id, date, participants, ranks) ==
    [game_id |-> id, date |-> date, participants |-> participants,
     ranks |-> ranks, scores |-> None, metrics |-> NoMetrics]

\* participants and ranks of the game files submitted in Spec: two- and
\* three-player results with and without ties, a repeated name, and files
\* that are malformed in the ways the code checks for
Outcomes ==
    { <<Some(<<"A", "B">>), Some(<<0, 1>>)>>,
      <<Some(<<"A", "B">>), Some(<<1, 0>>)>>,
      <<Some(<<"B", "C">>), Some(<<0, 0>>)>>,
      <<Some(<<"A", "B", "C">>), Some(<<0, 1, 1>>)>>,
      <<Some(<<"A", "A">>), Some(<<0, 1>>)>>,
      <<Some(<<>>), Some(<<>>)>>,
      <<Some(<<"A">>), Some(<<0>>)>>,
      <<Some(<<"A", "B">>), Some(<<0>>)>>,
      <<None, Some(<<0, 1>>)>> }

SubmitIds == {None, Some(UserId("g1"))}

SubmitDates == {None} \cup {Some(d) : d \in Dates}

SubmittedGames ==
    {Game(id, d, o[1], o[2]) : id \in SubmitIds, d \in SubmitDates, o \in Outcomes}

Attempt(solver, creator, error, tokens, cost, time, correct) ==
    [solver |-> solver, challenge_creator |-> creator, error |-> error,
     total_tokens |-> tokens, total_cost |-> cost, total_time |-> time,
     is_correct |-> correct]

Score(n, v) == [name |-> n, score |-> v]

Tournament(file, ts, contenders, scores, results) ==
    [readable |-> TRUE, file |-> file,
     tournament_info |-> Some([timestamp |-> ts]),
     contenders |-> contenders, final_scores |-> scores,
     detailed_results |-> results]

TournamentFiles == {"t1", "t2"}

\* the tournament result files imported in Spec
Tournaments ==
    {Tournament(f, Some(ts), Some(<<"A", "B">>),
                Some(<<Score("A", 3), Score("B", 1)>>),
                <<Attempt("A", "B", FALSE, 6, 2, 3, TRUE)>>) :
        f \in TournamentFiles, ts \in Dates}
    \cup
    {Tournament(f, Some(ts), Some(<<"C", "B", "A">>),
                Some(<<Score("A", 2), Score("B", 2), Score("C", 5)>>),
                <<>>) :
        f \in TournamentFiles, ts \in Dates}
    \cup
    { Tournament("t1", Some(1), Some(<<"C">>), Some(<<Score("C", 1)>>), <<>>),
      Tournament("t1", Some(1), Some(<<"A", "B">>), Some(<<Score("A", 1)>>), <<>>),
      Tournament("t1", None, Some(<<"A", "B">>),
                 Some(<<Score("A", 1), Score("B", 0)>>), <<>>),
      [Tournament("t1", Some(1), None, None, <<>>) EXCEPT !.readable = FALSE] }

----------------------------------------------------------------------------
(* The store and the operations that write it, one operation at a time *)

NoTournament ==
    [readable |-> FALSE, file |-> "", tournament_info |-> None,
     contenders |-> None, final_scores |-> None, detailed_results |-> <<>>]

NoLast ==
    [op |-> "none", ok |-> TRUE, games |-> EmptyDir, file |-> NoFile,
     game |-> NoGame, saved |-> FALSE, existed |-> FALSE, force |-> FALSE,
     order |-> <<>>, prevOp |-> "none", prevGame |-> NoGame, prevOrder |-> <<>>,
     tournament |-> NoTournament]

\* the record of an operation that follows the one recorded in last
After(op) ==
    [NoLast EXCEPT !.op = op, !.games = games, !.file = lbFile,
                   !.prevOp = last.op, !.prevGame = last.game, !.prevOrder = last.order]

Idle == [op |-> "idle", pc |-> "idle", queue |-> <<>>, models |-> <<>>,
         before |-> NoFile, after |-> NoFile]

NotSeen == [kind |-> "none", models |-> <<>>, during |-> FALSE,
            before |-> <<>>, after |-> <<>>]

\* a caller of update_leaderboard_from_game that has not called yet
NotCalled == [pc |-> "idle", game |-> NoGame, models |-> <<>>]

\* no single-game update is in flight
NoUpdaters == [of |-> <<NotCalled, NotCalled>>, base |-> NoFile, overlapped |-> FALSE]

Init ==
    /\ games = EmptyDir
    /\ lbFile = NoFile
    /\ last = NoLast
    /\ nops = 0
    /\ writer = Idle
    /\ seen = NotSeen
    /\ updaters = NoUpdaters

\* update_leaderboard.py main with --game-file
Submit(g, now) ==
    /\ IF ~ValidateGameData(g)
       THEN /\ UNCHANGED <<games, lbFile>>
            /\ last' = [After("submit") EXCEPT !.ok = FALSE, !.game = g]
       ELSE LET game == CompleteGame(games, g, now)
                r == UpdateRatingsFromGame(lbFile, game)
            IN  /\ games' = WriteGameFile(games, game)
                /\ lbFile' = r.file
                /\ last' = [After("submit") EXCEPT
                                !.ok = r.ok, !.game = game, !.saved = TRUE,
                                !.existed = game.game_id[1] \in DOMAIN games]
    /\ UNCHANGED <<writer, seen, updaters>>

\* import_tournament_results.py import_tournament_to_leaderboard
Import(t, force, dryRun) ==
    /\ LET r == ImportTournamentToLeaderboard(games, lbFile, t, force, dryRun)
           valid == t.readable /\ ValidateTournamentData(t)
           game == IF valid THEN ConvertTournamentToGameFormat(t) ELSE NoGame
           existed == valid /\ game.game_id[1] \in DOMAIN games
       IN  /\ games' = r.games
           /\ lbFile' = r.file
           /\ last' = [After("import") EXCEPT
                           !.ok = r.ok, !.game = game,
                           !.saved = valid /\ ~dryRun /\ (force \/ ~existed),
                           !.existed = existed, !.force = force,
                           !.tournament = t]
    /\ UNCHANGED <<writer, seen, updaters>>

\* update_leaderboard.py main with --recalculate
Recalculate(order) ==
    /\ lbFile' = RecalculateLeaderboard(games, order, lbFile)
    /\ last' = [After("recalculate") EXCEPT
                    !.ok = RecalculateReturns(games, order), !.order = order]
    /\ UNCHANGED <<games, writer, seen, updaters>>

\* one more operation is run, MaxOps at most
Tick == nops < MaxOps /\ nops' = nops + 1

Next ==
    \/ \E g \in SubmittedGames, now \in Dates : Tick /\ Submit(g, now)
    \/ \E t \in Tournaments, force \in BOOLEAN, dryRun \in BOOLEAN :
            Tick /\ Import(t, force, dryRun)
    \/ \E order \in Orders(games) : Tick /\ Recalculate(order)

Spec == Init /\ [][Next]_vars

----------------------------------------------------------------------------
(* Properties of the store under Spec *)

Models(file) == LoadLeaderboard(file)

\* the leaderboard is what recalculate_leaderboard would leave for the stored
\* game files, for some order in which glob may list them
IsFoldOfHistory(gs, file) ==
    \E o \in Orders(gs) : Models(file) = Models(RecalculateLeaderboard(gs, o, file))

\* C1: after any sequence of single-game submissions, tournament imports
\* (forced or not) and recalculations, the persisted models are the ones a
\* recalculation over the persisted game files produces.
C1_SnapshotIsFoldOfHistory == IsFoldOfHistory(games, lbFile)

\* C6: a tournament import or a single-game submission that ends in failure
\* leaves the games directory and the leaderboard file as they were.
C6_FailureLeavesStateUntouched ==
    (last.op \in {"submit", "import"} /\ ~last.ok)
        => (games = last.games /\ lbFile = last.file)

\* C7: after a forced import of a tournament whose game id was already
\* stored, the leaderboard equals the recomputation of the stored history
\* (the game is counted once).
C7_ForcedImportRecomputes ==
    (last.op = "import" /\ last.force /\ last.existed /\ last.saved /\ last.ok)
        => IsFoldOfHistory(games, lbFile)

\* C8: importing a tournament whose game record is already stored, without
\* the force flag, succeeds and changes neither the stored record nor the
\* leaderboard; the record stays the only one under its id.
C8_ReimportIsNoOp ==
    (last.op = "import" /\ last.existed /\ ~last.force)
        => /\ last.ok
           /\ games = last.games
           /\ lbFile = last.file
           /\ last.game.game_id[1] \in DOMAIN games

\* C8 witness: the same tournament file imported twice in a row without
\* force, the first import having stored its record and rated its players
C8_Witness ==
    /\ last.op = "import" /\ last.existed /\ ~last.force
    /\ last.prevOp = "import" /\ last.prevGame = last.game
    /\ Models(lbFile) # <<>>

----------------------------------------------------------------------------
(* Replay: recalculate_leaderboard over game files found in data/games *)

MaxFiles == 3

PlacedId(n) == <<"user", n, "file">>

\* the game files found in the directory: with and without a date, equal and
\* different dates, results whose order of folding matters, and a file that
\* fails validate_game_data
PlacedGames ==
    << Game(None, None, Some(<<"A", "B">>), Some(<<0, 1>>)),
       Game(None, None, Some(<<"A", "B">>), Some(<<1, 0>>)),
       Game(None, Some(1), Some(<<"A", "B">>), Some(<<0, 1>>)),
       Game(None, Some(1), Some(<<"A", "B">>), Some(<<1, 0>>)),
       Game(None, Some(2), Some(<<"B", "C">>), Some(<<0, 0>>)),
       Game(None, Some(2), Some(<<"A", "B">>), Some(<<0>>)),
       Game(None, Some(3), Some(<<"A", "B">>), Some(<<0, 1>>)) >>

\* the directories of k files; a file's name plays no part in the replay and
\* the files are listed in every order, so the contents are taken up to a
\* renaming of the files
Directories(k) ==
    LET choices == {c \in [1..k -> DOMAIN PlacedGames] :
                       \A i, j \in 1..k : i < j => c[i] <= c[j]}
    IN  {[id \in {PlacedId(n) : n \in 1..k} |->
             [PlacedGames[c[id[2]]] EXCEPT !.game_id = Some(id)]] : c \in choices}

\* the games submitted after a recalculation, and the clock at that time
LaterGames ==
    {Game(None, d, Some(<<"A", "B">>), Some(r)) :
        d \in {None, Some(2), Some(4)}, r \in {<<1, 0>>, <<0, 0>>}}

ClockAtSubmit == {4}

InitReplay ==
    /\ games \in UNION {Directories(k) : k \in 0..MaxFiles}
    /\ lbFile = NoFile
    /\ last = NoLast
    /\ nops = 0
    /\ writer = Idle
    /\ seen = NotSeen
    /\ updaters = NoUpdaters

\* a recalculation, run again only with the files listed in the same order; a
\* single game submitted right after a recalculation
NextReplay ==
    \/ \E order \in Orders(games) :
        /\ last.op # "submit"
        /\ last.op = "recalculate" => order = last.order
        /\ Recalculate(order)
        /\ UNCHANGED nops
    \/ \E g \in LaterGames, now \in ClockAtSubmit :
        /\ last.op = "recalculate"
        /\ Submit(g, now)
        /\ UNCHANGED nops

SpecReplay == InitReplay /\ [][NextReplay]_vars

Remove(seq, x) == SelectSeq(seq, LAMBDA y : y # x)

DatesDistinct(gs) ==
    \A a, b \in DOMAIN gs : a # b => DateKey(gs[a]) # DateKey(gs[b])

\* the stored games listed by ascending date, when all dates differ
AscendingByDate(gs) ==
    [i \in 1..Cardinality(DOMAIN gs) |->
        gs[CHOOSE a \in DOMAIN gs :
              Cardinality({b \in DOMAIN gs : DateKey(gs[b]) < DateKey(gs[a])}) = i - 1]]

\* the date of a record as a sort key, a missing date being the empty string
KeyOf(g) == IF g.date = None THEN 0 ELSE g.date[1]

\* the games listed in order, sorted by date, records with the same key
\* staying in the order of the listing
StableByDate(gs, order) ==
    LET n == Len(order)
        place(i) ==
            1 + Cardinality({j \in 1..n :
                    \/ KeyOf(gs[order[j]]) < KeyOf(gs[order[i]])
                    \/ (KeyOf(gs[order[j]]) = KeyOf(gs[order[i]]) /\ j < i)})
    IN  [p \in 1..n |-> gs[order[CHOOSE i \in 1..n : place(i) = p]]]

\* C2: a valid game dated after every stored game, applied by
\* update_ratings_from_game to the snapshot a recalculation over the
\* (non-empty) stored history has left, gives the models of a recalculation
\* over the history with that game added, wherever glob lists the new file.
C2_AppendEqualsRecompute ==
    (/\ last.op = "submit" /\ last.ok /\ ~last.existed
     /\ last.prevOp = "recalculate"
     /\ last.games # EmptyDir
     /\ \A id \in DOMAIN last.games : DateKey(last.games[id]) < DateKey(last.game))
        => \A o \in Orders(games) :
              Remove(o, last.game.game_id[1]) = last.prevOrder
                  => Models(lbFile) = Models(RecalculateLeaderboard(games, o, lbFile))

C2_Witness ==
    /\ last.op = "submit" /\ last.ok /\ ~last.existed
    /\ last.prevOp = "recalculate"
    /\ Cardinality(DOMAIN last.games) >= 2
    /\ Len(Models(last.file)) >= 3
    /\ \A id \in DOMAIN last.games : DateKey(last.games[id]) < DateKey(last.game)
    /\ \E a, b \in DOMAIN last.games : a # b /\ DateKey(last.games[a]) = DateKey(last.games[b])

\* C3: when the stored records have pairwise distinct dates, the models a
\* recalculation leaves are the fold of the records in ascending date order,
\* and every order in which the files may be listed gives these same models.
C3_DiscoveryOrderIrrelevant ==
    (last.op = "recalculate" /\ games # EmptyDir /\ DatesDistinct(games))
        => /\ Models(lbFile) = Models(FoldGames(NoFile, AscendingByDate(games), 1))
           /\ \A o \in Orders(games) :
                 Models(RecalculateLeaderboard(games, o, last.file)) = Models(lbFile)

C3_Witness ==
    /\ last.op = "recalculate" /\ DatesDistinct(games)
    /\ Cardinality(DOMAIN games) = 3
    /\ \A id \in DOMAIN games : ValidateGameData(games[id])
    /\ DateKey(games[last.order[1]]) > DateKey(games[last.order[3]])
    /\ Models(lbFile) # Models(FoldGames(NoFile, [i \in 1..3 |-> games[last.order[i]]], 1))

\* C4: a recalculation leaves the fold, from an empty leaderboard, of the
\* records sorted by date with equal and missing dates kept in the order of
\* the listing (a missing date sorting first); the result depends on the
\* records and their listing only, so a second run leaves identical models.
C4_StableDeterministicReplay ==
    (last.op = "recalculate")
        => Models(lbFile) =
              Models(IF games = EmptyDir THEN last.file
                     ELSE FoldGames(NoFile, StableByDate(games, last.order), 1))

C4_Witness ==
    /\ last.op = "recalculate" /\ last.prevOp = "recalculate"
    /\ Models(lbFile) # <<>>
    /\ Models(last.file) = Models(lbFile)
    /\ Cardinality(DOMAIN games) = 3
    /\ games[last.order[1]].date # None
    /\ games[last.order[2]].date = None
    /\ games[last.order[3]].date = games[last.order[1]].date
    /\ games[last.order[3]].ranks # games[last.order[1]].ranks

----------------------------------------------------------------------------
(* Single games: update_leaderboard_from_game on arbitrary game data *)

RankValues == {0, 1, 2}

RankLists ==
    UNION {[1..n -> RankValues] : n \in 1..3}

ParticipantLists ==
    { <<"A", "B">>, <<"A", "A">>, <<"A", "B", "C">>, <<"C", "A", "B">> }

\* every result of two or three players, a name listed twice, and game data
\* that update_ratings_from_game rejects
GameInputs ==
    UNION {{Game(None, None, Some(p), Some(r)) : r \in {x \in RankLists : Len(x) = Len(p)}} :
              p \in ParticipantLists}
    \cup
    { Game(None, None, Some(<<"A", "B">>), Some(<<0>>)),
      Game(None, None, Some(<<"A">>), Some(<<0>>)),
      Game(None, None, Some(<<>>), Some(<<>>)),
      Game(None, None, None, Some(<<0, 1>>)) }

\* update_leaderboard_from_game(game_data)
UpdateFromGame(g) ==
    /\ LET r == UpdateRatingsFromGame(lbFile, g)
       IN  /\ lbFile' = r.file
           /\ last' = [After("update") EXCEPT !.ok = r.ok, !.game = g]
    /\ UNCHANGED <<games, writer, seen, updaters>>

NextGame == \E g \in GameInputs : Tick /\ UpdateFromGame(g)

SpecGame == Init /\ [][NextGame]_vars

\* the entry of a competitor, a competitor without entry counting as new
EntryOf(models, name) ==
    IF HasEntry(models, name) THEN models[EntryIndex(models, name)] ELSE NewEntry(name)

\* the positions of the game at which the competitor is listed
Listed(g, name) == {i \in DOMAIN g.participants[1] : g.participants[1][i] = name}

\* the pairs <<i, j>>, i a position of the competitor and j another position,
\* whose ranks are related as Rel says
Against(g, name, Rel(_, _)) ==
    {pr \in Listed(g, name) \X DOMAIN g.ranks[1] :
        pr[1] # pr[2] /\ Rel(g.ranks[1][pr[1]], g.ranks[1][pr[2]])}

TiedWith(a, b) == a = b

Beats(a, b) == a < b

BeatenBy(a, b) == a > b

\* C9: a processed game adds to each participant's draws the number of other
\* positions with the same rank, so that wins + losses + draws grow by N - 1
\* for each position at which the participant is listed.
C9_DrawsCountOthersWithEqualRank ==
    (last.op = "update" /\ last.ok)
        => \A n \in Range(last.game.participants[1]) :
              LET old == EntryOf(Models(last.file), n)
                  new == EntryOf(Models(lbFile), n)
              IN  /\ new.draws - old.draws = Cardinality(Against(last.game, n, TiedWith))
                  /\ (new.wins + new.losses + new.draws)
                        - (old.wins + old.losses + old.draws)
                     = Cardinality(Listed(last.game, n))
                          * (Len(last.game.participants[1]) - 1)

\* C10: a processed game adds to each participant's wins the number of
\* positions with a strictly greater rank value and to its losses the number
\* with a strictly smaller one.
C10_WinsAndLossesCountStrictRanks ==
    (last.op = "update" /\ last.ok)
        => \A n \in Range(last.game.participants[1]) :
              LET old == EntryOf(Models(last.file), n)
                  new == EntryOf(Models(lbFile), n)
              IN  /\ new.wins - old.wins = Cardinality(Against(last.game, n, Beats))
                  /\ new.losses - old.losses = Cardinality(Against(last.game, n, BeatenBy))

\* C10 witness: a three-player game with a tie, folded into a leaderboard
\* whose entries already carry wins and losses
C10_Witness ==
    /\ last.op = "update" /\ last.ok
    /\ last.game.ranks[1] = <<2, 0, 2>>
    /\ \E k \in DOMAIN Models(last.file) :
          Models(last.file)[k].wins > 0 /\ Models(last.file)[k].losses > 0
    /\ \E k \in DOMAIN Models(lbFile) : Models(lbFile)[k].wins >= 3

----------------------------------------------------------------------------
(* One writer, step by step, and a reader (app/models.py) *)

ConcGames ==
    { Game(None, Some(1), Some(<<"A", "B">>), Some(<<0, 1>>)),
      Game(None, Some(2), Some(<<"A", "B">>), Some(<<1, 0>>)),
      Game(None, None, Some(<<>>), Some(<<>>)),
      Game(None, Some(1), Some(<<"A", "B">>), Some(<<0>>)) }

ClockAtWrite == {3}

\* main with --game-file up to the call of update_leaderboard_from_game: the
\* game is validated and its file written
SubmitStart(g, now) ==
    /\ writer.pc = "idle"
    /\ Tick
    /\ IF ~ValidateGameData(g)
       THEN UNCHANGED <<games, writer>>
       ELSE LET game == CompleteGame(games, g, now)
            IN  /\ games' = WriteGameFile(games, game)
                /\ writer' = [Idle EXCEPT !.op = "submit", !.pc = "compute",
                                          !.queue = <<game>>, !.before = lbFile,
                                          !.after = UpdateRatingsFromGame(lbFile, game).file]
    /\ UNCHANGED <<lbFile, last, seen, updaters>>

\* recalculate_leaderboard up to the deletion of the leaderboard file
RecalculateStart(order) ==
    /\ writer.pc = "idle"
    /\ Tick
    /\ LET list == LoadAllGames(games, order)
       IN  IF list = <<>>
           THEN UNCHANGED writer
           ELSE writer' = [Idle EXCEPT !.op = "recalculate", !.pc = "unlink",
                                       !.queue = list, !.before = lbFile,
                                       !.after = RecalculateLeaderboard(games, order, lbFile)]
    /\ UNCHANGED <<games, lbFile, last, seen, updaters>>

\* LEADERBOARD_FILE.unlink()
Unlink ==
    /\ writer.pc = "unlink"
    /\ lbFile' = NoFile
    /\ writer' = [writer EXCEPT !.pc = "compute"]
    /\ UNCHANGED <<games, last, nops, seen, updaters>>

\* the writer is done with the game at the head of its queue
Advance(w) ==
    IF Len(w.queue) = 1 THEN Idle ELSE [w EXCEPT !.queue = Tail(@), !.pc = "compute"]

\* update_ratings_from_game up to _save_leaderboard: the file is loaded and
\* the new models are computed; an invalid game of a recalculation and a
\* game whose update raises are dropped
Compute ==
    /\ writer.pc = "compute"
    /\ LET g == Head(writer.queue)
       IN  IF (writer.op = "recalculate" /\ ~ValidateGameData(g)) \/ ~UpdateAccepts(lbFile, g)
           THEN writer' = Advance(writer)
           ELSE writer' = [writer EXCEPT !.pc = "open",
                                         !.models = UpdatedModels(LoadLeaderboard(lbFile), g)]
    /\ UNCHANGED <<games, lbFile, last, nops, seen, updaters>>

\* _save_leaderboard: open(LEADERBOARD_FILE, 'w') empties the file
OpenForWrite ==
    /\ writer.pc = "open"
    /\ lbFile' = Truncated
    /\ writer' = [writer EXCEPT !.pc = "dump"]
    /\ UNCHANGED <<games, last, nops, seen, updaters>>

\* _save_leaderboard: json.dump, and the file is closed
Dump ==
    /\ writer.pc = "dump"
    /\ lbFile' = FileOf(writer.models)
    /\ writer' = Advance(writer)
    /\ UNCHANGED <<games, last, nops, seen, updaters>>

\* get_leaderboard_data: an empty leaderboard when there is no file, a JSON
\* error when the file holds no complete document
GetLeaderboardData ==
    /\ seen' = [kind |-> IF lbFile.kind = "truncated" THEN "error" ELSE "read",
                models |-> LoadLeaderboard(lbFile),
                during |-> writer.pc # "idle",
                before |-> Models(writer.before),
                after |-> Models(writer.after)]
    /\ UNCHANGED <<games, lbFile, last, nops, writer, updaters>>

NextConc ==
    \/ \E g \in ConcGames, now \in ClockAtWrite : SubmitStart(g, now)
    \/ \E order \in Orders(games) : RecalculateStart(order)
    \/ Unlink
    \/ Compute
    \/ OpenForWrite
    \/ Dump
    \/ GetLeaderboardData

SpecConc == Init /\ [][NextConc]_vars

\* C5: what a reader gets while a recalculation or a single-game update is
\* running is the snapshot from before the operation or the final one.
C5_ReaderSeesOnlyCompleteSnapshots ==
    seen.during => (seen.kind = "read" /\ seen.models \in {seen.before, seen.after})

----------------------------------------------------------------------------
(* Counters and averages of the entries *)

\* the wins, losses and draws an entry carries are all zero
ZeroCounters(e) == e.wins = 0 /\ e.losses = 0 /\ e.draws = 0

\* C11: a game of three different participants with ranks [0, 1, 1], folded
\* into entries whose counters are zero, leaves the participant at rank 0 with
\* 2 wins and each of the two participants at rank 1 with 1 win, 1 draw and
\* no loss.
C11_ThreeWayTieExample ==
    (/\ last.op = "update" /\ last.ok
     /\ last.game.ranks[1] = <<0, 1, 1>>
     /\ Cardinality(Range(last.game.participants[1])) = 3
     /\ \A n \in Range(last.game.participants[1]) :
           ZeroCounters(EntryOf(Models(last.file), n)))
        => LET p == last.game.participants[1]
               e(i) == EntryOf(Models(lbFile), p[i])
           IN  /\ e(1).wins = 2
               /\ \A i \in {2, 3} : e(i).wins = 1 /\ e(i).draws = 1 /\ e(i).losses = 0

----------------------------------------------------------------------------
(* Games that carry performance metrics, submitted one after the other *)

MaxFolds == 3

\* additional_info.performance_metrics of a game: cost and speed per model
Sample(cost, speed) == [total_cost |-> Rat(cost, 1), tokens_per_second |-> Rat(speed, 1)]

MetricsOfA == {NoMetrics, "A" :> Sample(16, 4), "A" :> Sample(20, 2)}

MetricsOfB == {NoMetrics, "B" :> Sample(16, 4)}

\* two-player games with metrics for both players, for one, or for none
MetricGames ==
    {[Game(None, None, Some(<<"A", "B">>), Some(r)) EXCEPT !.metrics = a @@ b] :
        r \in {<<0, 1>>, <<1, 0>>}, a \in MetricsOfA, b \in MetricsOfB}

ClockAtMetrics == {1}

NextMetrics ==
    \E g \in MetricGames, now \in ClockAtMetrics :
        /\ Cardinality(DOMAIN games) < MaxFolds
        /\ Submit(g, now)
        /\ UNCHANGED nops

SpecMetrics == Init /\ [][NextMetrics]_vars

\* C12: when the processed game carries metrics for a participant whose entry
\* had games_played = n and average a before the game, the new average is the
\* sample x when n = 0 and (a * n + x) / (n + 1) otherwise, for the cost and
\* for the speed alike.
C12_RunningAverageUsesCountBeforeGame ==
    (last.op = "submit" /\ last.ok)
        => \A name \in DOMAIN last.game.metrics :
              LET old == EntryOf(Models(last.file), name)
                  new == EntryOf(Models(lbFile), name)
                  n == old.games_played
                  x == last.game.metrics[name]
              IN  /\ new.avg_total_cost =
                        IF n = 0 THEN x.total_cost
                        ELSE RunningAverage(old.avg_total_cost, n, x.total_cost)
                  /\ new.avg_tokens_per_second =
                        IF n = 0 THEN x.tokens_per_second
                        ELSE RunningAverage(old.avg_tokens_per_second, n, x.tokens_per_second)

\* the stored games that carry metrics for the competitor; every game of
\* SpecMetrics is stored under a fresh id and folded when it is submitted
GamesWithMetrics(gs, name) ==
    {id \in DOMAIN gs : name \in Range(gs[id].participants[1]) /\ name \in DOMAIN gs[id].metrics}

AddRat(a, b) == Rat(a[1] * b[2] + b[1] * a[2], a[2] * b[2])

\* the sum of the samples, given as a function from game ids to samples
RECURSIVE SumOfSamples(_)
SumOfSamples(samples) ==
    IF DOMAIN samples = {} THEN Zero
    ELSE LET id == CHOOSE x \in DOMAIN samples : TRUE
         IN  AddRat(samples[id],
                    SumOfSamples([x \in DOMAIN samples \ {id} |-> samples[x]]))

\* the arithmetic mean of the samples, 0 if there is none
MeanOfSamples(samples) ==
    LET sum == SumOfSamples(samples)
    IN  IF DOMAIN samples = {} THEN Zero
        ELSE Rat(sum[1], sum[2] * Cardinality(DOMAIN samples))

CostSamples(gs, name) ==
    [id \in GamesWithMetrics(gs, name) |-> gs[id].metrics[name].total_cost]

SpeedSamples(gs, name) ==
    [id \in GamesWithMetrics(gs, name) |-> gs[id].metrics[name].tokens_per_second]

\* C13: each competitor's averages are the arithmetic means of the metric
\* over the folded games that carried metrics for it, and 0 while there is no
\* such game; games without metrics for it carry no weight.
C13_AveragesAreMeansOverGamesWithMetrics ==
    \A k \in DOMAIN Models(lbFile) :
        LET e == Models(lbFile)[k]
        IN  /\ e.avg_total_cost = MeanOfSamples(CostSamples(games, e.name))
            /\ e.avg_tokens_per_second = MeanOfSamples(SpeedSamples(games, e.name))

\* the names that have an entry
NamesOf(models) == {models[k].name : k \in DOMAIN models}

\* C14: a processed game adds exactly 1 to games_played of every competitor
\* named in its participants, however often the name is listed, and nothing
\* to games_played of the others.
C14_GamesPlayedGrowsByOne ==
    (last.op = "update" /\ last.ok)
        => \A n \in NamesOf(Models(lbFile)) :
              EntryOf(Models(lbFile), n).games_played
                  = EntryOf(Models(last.file), n).games_played
                    + (IF n \in Range(last.game.participants[1]) THEN 1 ELSE 0)

----------------------------------------------------------------------------
(* Submissions and imports only, of records that list each participant once *)

ListsOnce(g) ==
    Cardinality(Range(GetList(g.participants))) = Len(GetList(g.participants))

NextIntake ==
    \/ \E g \in {x \in SubmittedGames : ListsOnce(x)}, now \in Dates : Tick /\ Submit(g, now)
    \/ \E t \in Tournaments, force \in BOOLEAN, dryRun \in BOOLEAN :
            Tick /\ Import(t, force, dryRun)

SpecIntake == Init /\ [][NextIntake]_vars

\* the stored game records that list the competitor
StoredGamesOf(gs, name) ==
    {id \in DOMAIN gs : name \in Range(GetList(gs[id].participants))}

\* C15: after single-game submissions and tournament imports, every
\* competitor's games_played is the number of stored game records that list
\* it, also when a record was submitted again under a game_id already in use.
C15_GamesPlayedCountsStoredRecords ==
    \A n \in NamesOf(Models(lbFile))
                \cup UNION {Range(GetList(games[id].participants)) : id \in DOMAIN games} :
        EntryOf(Models(lbFile), n).games_played = Cardinality(StoredGamesOf(games, n))

----------------------------------------------------------------------------
(* The entries of the leaderboard under Spec *)

\* the participants of the stored records that a recalculation folds
FoldedParticipants(gs) ==
    UNION {Range(GetList(gs[id].participants)) :
              id \in {x \in DOMAIN gs : ValidateGameData(gs[x]) /\ UpdateAccepts(NoFile, gs[x])}}

\* C16: no two entries have the same name; an operation that folds a game
\* adds the game's participants to the names and removes none, an operation
\* that folds nothing leaves the names alone, and a recalculation, which
\* empties the leaderboard first, leaves exactly the participants of the
\* records it folds.
C16_OneEntryPerFoldedParticipant ==
    LET models == Models(lbFile)
        before == NamesOf(Models(last.file))
    IN  /\ \A i, j \in DOMAIN models : models[i].name = models[j].name => i = j
        /\ last.op \in {"submit", "import"} =>
              NamesOf(models) =
                  before \cup (IF last.ok /\ last.saved
                               THEN Range(last.game.participants[1]) ELSE {})
        /\ last.op = "recalculate" =>
              NamesOf(models) = IF games = EmptyDir THEN before ELSE FoldedParticipants(games)

\* C16 witness: a submitted game between a competitor that has an entry and a
\* new one is folded into a leaderboard that holds a third competitor
C16_Witness ==
    /\ last.op = "submit" /\ last.ok
    /\ \E n \in NamesOf(Models(last.file)) : n \notin Range(last.game.participants[1])
    /\ \E n \in Range(last.game.participants[1]) : n \in NamesOf(Models(last.file))
    /\ \E n \in Range(last.game.participants[1]) : n \notin NamesOf(Models(last.file))
    /\ Len(Models(lbFile)) = 3

----------------------------------------------------------------------------
(* New competitors *)

\* C17: a competitor without entry that a processed game names is rated as
\* if it had an entry with the default mu and sigma, no games, wins, losses
\* or draws and zero averages, and has games_played = 1 after the game.
C17_NewCompetitorStartsFromDefaultPrior ==
    (last.op = "update" /\ last.ok)
        => \A n \in Range(last.game.participants[1]) \ NamesOf(Models(last.file)) :
              LET seeded == UpdatedModels(Append(Models(last.file), NewEntry(n)), last.game)
              IN  /\ \A m \in NamesOf(Models(lbFile)) :
                        EntryOf(Models(lbFile), m) = EntryOf(seeded, m)
                  /\ NamesOf(seeded) = NamesOf(Models(lbFile))
                  /\ EntryOf(Models(lbFile), n).games_played = 1

----------------------------------------------------------------------------
(* Malformed game records, passed to the calculator and submitted to main *)

\* game data with lists of different lengths, empty or missing lists, and
\* well-formed games in between, with and without a scores list
RecordInputs ==
    { Game(None, None, Some(<<"A", "B">>), Some(<<0, 1>>)),
      Game(None, None, Some(<<"B", "C">>), Some(<<0, 0>>)),
      Game(None, None, Some(<<"A", "B">>), Some(<<0>>)),
      Game(None, None, Some(<<"A">>), Some(<<0, 1>>)),
      Game(None, None, Some(<<"A", "B", "C">>), Some(<<0, 1>>)),
      Game(None, None, Some(<<>>), Some(<<0>>)),
      Game(None, None, Some(<<>>), Some(<<>>)),
      Game(None, None, None, Some(<<0, 1>>)),
      [Game(None, None, Some(<<"A", "B">>), Some(<<0, 1>>)) EXCEPT !.scores = Some(<<5, 3>>)],
      [Game(None, None, Some(<<"A", "B">>), Some(<<0, 1>>)) EXCEPT !.scores = Some(<<5>>)] }

ClockAtRecord == {1}

NextRecord ==
    \/ \E g \in RecordInputs : Tick /\ UpdateFromGame(g)
    \/ \E g \in RecordInputs, now \in ClockAtRecord : Tick /\ Submit(g, now)

SpecRecord == Init /\ [][NextRecord]_vars

LengthsDiffer(g) == Len(GetList(g.participants)) # Len(GetList(g.ranks))

ListsEmpty(g) == GetList(g.participants) = <<>> \/ GetList(g.ranks) = <<>>

\* C18: update_ratings_from_game rejects game data whose participants and
\* ranks differ in length or are empty and leaves the leaderboard file as it
\* was; main rejects a game file with a length mismatch without saving it.
C18_MismatchRejectedBeforeWrite ==
    /\ (last.op = "update" /\ (LengthsDiffer(last.game) \/ ListsEmpty(last.game)))
          => (~last.ok /\ lbFile = last.file /\ games = last.games)
    /\ (last.op = "submit" /\ LengthsDiffer(last.game))
          => (~last.ok /\ ~last.saved /\ lbFile = last.file /\ games = last.games)

\* C18 witness: a game file with more participants than ranks is submitted
\* when a game is stored and the leaderboard has entries
C18_Witness ==
    /\ last.op = "submit" /\ ~last.ok
    /\ Len(GetList(last.game.participants)) > Len(GetList(last.game.ranks))
    /\ GetList(last.game.ranks) # <<>>
    /\ last.games # EmptyDir /\ Models(last.file) # <<>>
    /\ games = last.games /\ lbFile = last.file

\* C19: a game record with a scores list whose length differs from the
\* length of participants is rejected by the game validation of main and by
\* the single-game update; game files and leaderboard stay as they were.
C19_ScoresLengthMismatchRejected ==
    (/\ last.op \in {"update", "submit"}
     /\ last.game.scores # None
     /\ Len(last.game.scores[1]) # Len(GetList(last.game.participants)))
        => (~last.ok /\ games = last.games /\ lbFile = last.file)

----------------------------------------------------------------------------
(* Replay over directories that hold records the fold cannot use *)

\* well-formed games and, dated before, between and after them, a record
\* that fails validate_game_data and records whose update raises
SkippedGames ==
    << Game(None, Some(1), Some(<<"A", "B">>), Some(<<0, 1>>)),
       Game(None, Some(2), Some(<<"A">>), Some(<<0>>)),
       Game(None, Some(2), Some(<<"A", "B">>), Some(<<0>>)),
       Game(None, Some(3), Some(<<"A", "B">>), Some(<<1, 0>>)),
       Game(None, None, Some(<<>>), Some(<<>>)) >>

\* the directories of k files with these contents, up to a renaming of the files
DirectoriesOfSkipped(k) ==
    LET choices == {c \in [1..k -> DOMAIN SkippedGames] :
                       \A i, j \in 1..k : i < j => c[i] <= c[j]}
    IN  {[id \in {PlacedId(n) : n \in 1..k} |->
             [SkippedGames[c[id[2]]] EXCEPT !.game_id = Some(id)]] : c \in choices}

InitSkip ==
    /\ games \in UNION {DirectoriesOfSkipped(k) : k \in 0..MaxFiles}
    /\ lbFile = NoFile
    /\ last = NoLast
    /\ nops = 0
    /\ writer = Idle
    /\ seen = NotSeen
    /\ updaters = NoUpdaters

NextSkip ==
    \E order \in Orders(games) :
        /\ last.op = "none"
        /\ Recalculate(order)
        /\ UNCHANGED nops

SpecSkip == InitSkip /\ [][NextSkip]_vars

\* the record fails validation or makes the update raise
Fails(g) == ~ValidateGameData(g) \/ ~UpdateAccepts(NoFile, g)

\* the fold of a list of records none of which fails
RECURSIVE FoldOfUsable(_, _, _)
FoldOfUsable(models, list, i) ==
    IF i > Len(list) THEN models
    ELSE FoldOfUsable(UpdatedModels(models, list[i]), list, i + 1)

\* C20: a recalculation skips the records that fail validation or whose
\* update raises and goes on with the others: it leaves the models of the
\* fold of the history without the failing records, and folding the history
\* up to and including a failing record gives what folding it up to that
\* record gives.
C20_FailingRecordsAreSkipped ==
    (last.op = "recalculate" /\ games # EmptyDir)
        => LET list == LoadAllGames(games, last.order)
               usable == SelectSeq(list, LAMBDA g : ~Fails(g))
           IN  /\ Models(lbFile) = FoldOfUsable(<<>>, usable, 1)
               /\ \A i \in DOMAIN list :
                     Fails(list[i]) =>
                        Models(FoldGames(NoFile, SubSeq(list, 1, i), 1))
                            = Models(FoldGames(NoFile, SubSeq(list, 1, i - 1), 1))

\* C20 witness: a record whose update raises is dated between two
\* well-formed games, and both of these are folded
C20_Witness ==
    /\ last.op = "recalculate"
    /\ Cardinality(DOMAIN games) = 3
    /\ LET list == LoadAllGames(games, last.order)
       IN  ~Fails(list[1]) /\ Fails(list[2]) /\ ValidateGameData(list[2]) /\ ~Fails(list[3])
    /\ \E k \in DOMAIN Models(lbFile) : Models(lbFile)[k].games_played = 2

----------------------------------------------------------------------------
(* Derived fields and order of the saved models *)

\* C21: after every successful update and after every recalculation, each
\* entry of the leaderboard has conservative_rating = mu - 3 * sigma, the
\* participants of the last game and all other entries alike.
C21_ConservativeRatingIsMuMinusThreeSigma ==
    \A k \in DOMAIN Models(lbFile) :
        LET e == Models(lbFile)[k]
        IN  e.conservative_rating = e.mu - 3 * e.sigma

\* C21 witness: a game is folded into a leaderboard that holds a competitor
\* the game does not name, and changes the rating of one that it names
C21_Witness ==
    /\ last.op = "submit" /\ last.ok
    /\ \E n \in NamesOf(Models(last.file)) : n \notin Range(last.game.participants[1])
    /\ \E n \in Range(last.game.participants[1]) :
          /\ n \in NamesOf(Models(last.file))
          /\ EntryOf(Models(lbFile), n).mu # EntryOf(Models(last.file), n).mu
          /\ EntryOf(Models(lbFile), n).sigma # EntryOf(Models(last.file), n).sigma

\* the place of the competitor's entry in the list
PlaceOf(models, name) == CHOOSE k \in DOMAIN models : models[k].name = name

\* the list that update_ratings_from_game sorts: the loaded entries, then the
\* new participants in the order of the game
ListBeforeSort(file, game) == EnsureEntries(Models(file), game.participants[1], 1)

\* C22: every saved snapshot lists its models by non-increasing mu, and a
\* single-game update keeps entries with equal mu in the relative order they
\* had in the list before it was sorted.
C22_ModelsSortedByMuStable ==
    LET models == Models(lbFile)
    IN  /\ \A i, j \in DOMAIN models : i < j => models[i].mu >= models[j].mu
        /\ (last.op \in {"submit", "import"} /\ last.ok /\ last.saved)
              => LET before == ListBeforeSort(last.file, last.game)
                 IN  \A i, j \in DOMAIN models :
                        (i < j /\ models[i].mu = models[j].mu)
                            => PlaceOf(before, models[i].name) < PlaceOf(before, models[j].name)

\* C22 witness: a saved snapshot holds two entries with equal mu, and the
\* sort has moved an entry
C22_Witness ==
    /\ last.op = "submit" /\ last.ok /\ last.saved
    /\ \E i, j \in DOMAIN Models(lbFile) : i < j /\ Models(lbFile)[i].mu = Models(lbFile)[j].mu
    /\ LET before == ListBeforeSort(last.file, last.game)
       IN  \E k \in DOMAIN before : before[k].name # Models(lbFile)[k].name

----------------------------------------------------------------------------
(* Tournament results of every shape, imported into a small store *)

ScoreValues == {0, 1, 2}

\* final_scores over the names in order, with every combination of values
ScoresOver(names) ==
    {[k \in DOMAIN names |-> Score(names[k], v[k])] : v \in [DOMAIN names -> ScoreValues]}

ScoreMaps ==
    {None, Some(<<>>)}
    \cup {Some(x) : x \in UNION {ScoresOver(n) :
                      n \in {<<"A">>, <<"B">>, <<"A", "B">>, <<"B", "C">>,
                             <<"A", "B", "C">>, <<"C", "B", "A">>}}}

ContenderLists ==
    {None, Some(<<>>), Some(<<"A", "A">>), Some(<<"A", "B">>), Some(<<"A", "B", "C">>),
     Some(<<"C", "A", "B">>)}

InfoValues == {None, Some([timestamp |-> None]), Some([timestamp |-> Some(1)])}

\* tournament files with and without each required part
ShapedTournaments ==
    {[Tournament("t1", None, c, s, <<>>) EXCEPT !.tournament_info = info] :
        info \in InfoValues, c \in ContenderLists, s \in ScoreMaps}

\* the store before the import: empty, or holding one imported tournament
StoredBefore ==
    LET first == Tournament("t2", Some(2), Some(<<"A", "B">>),
                            Some(<<Score("A", 3), Score("B", 1)>>), <<>>)
    IN  {[games |-> EmptyDir, file |-> NoFile],
         [games |-> ImportTournamentToLeaderboard(EmptyDir, NoFile, first, FALSE, FALSE).games,
          file |-> ImportTournamentToLeaderboard(EmptyDir, NoFile, first, FALSE, FALSE).file]}

InitTournament ==
    /\ \E st \in StoredBefore : games = st.games /\ lbFile = st.file
    /\ last = NoLast
    /\ nops = 0
    /\ writer = Idle
    /\ seen = NotSeen
    /\ updaters = NoUpdaters

NextTournament ==
    \E t \in ShapedTournaments, dryRun \in BOOLEAN :
        /\ last.op = "none"
        /\ Import(t, FALSE, dryRun)
        /\ UNCHANGED nops

SpecTournament == InitTournament /\ [][NextTournament]_vars

\* C23: the rank calculate_ranks_from_scores gives a contender is the number
\* of contenders with a strictly higher score: the best score gets 0, equal
\* scores get equal ranks, and the rank after a tie group of size k is k
\* above the group's rank.
C23_RankIsNumberOfHigherScores ==
    (last.op = "import" /\ last.tournament.final_scores # None)
        => LET scores == last.tournament.final_scores[1]
               ranks == CalculateRanksFromScores(scores)
           IN  /\ DOMAIN ranks = ScoredNames(scores)
               /\ \A k \in DOMAIN scores :
                     ranks[scores[k].name]
                         = Cardinality({j \in DOMAIN scores : scores[j].score > scores[k].score})
               /\ (last.game # NoGame) =>
                     \A i \in DOMAIN last.game.ranks[1] :
                        last.game.ranks[1][i]
                            = Cardinality({j \in DOMAIN scores :
                                  scores[j].score > last.game.scores[1][i]})

\* C23 witness: two contenders tie for the best score and a third is below
C23_Witness ==
    /\ last.op = "import" /\ last.game # NoGame
    /\ last.game.participants[1] = <<"C", "A", "B">>
    /\ last.game.scores[1] = <<2, 1, 2>>
    /\ last.game.ranks[1] = <<0, 2, 0>>

\* what the contract asks of a tournament result: contest metadata with a
\* timestamp, at least one contender, and scores for exactly the contenders
HasTimestamp(t) == t.tournament_info # None /\ t.tournament_info[1].timestamp # None

HasContenders(t) == t.contenders # None /\ t.contenders[1] # <<>>

ScoresCoverContenders(t) ==
    /\ t.contenders # None
    /\ t.final_scores # None
    /\ \A k \in DOMAIN t.contenders[1] :
            \E i \in DOMAIN t.final_scores[1] : t.final_scores[1][i].name = t.contenders[1][k]
    /\ \A i \in DOMAIN t.final_scores[1] :
            \E k \in DOMAIN t.contenders[1] : t.contenders[1][k] = t.final_scores[1][i].name

WellFormedTournament(t) == HasTimestamp(t) /\ HasContenders(t) /\ ScoresCoverContenders(t)

\* C24: validate_tournament_data accepts a tournament result exactly when it
\* has tournament_info with a timestamp, a non-empty contenders list and
\* final_scores whose keys are exactly the contenders; the import of a
\* rejected result fails, builds no game record, and leaves the games
\* directory and the leaderboard file as they were.
C24_AcceptedIffWellFormed ==
    last.op = "import" =>
        /\ ValidateTournamentData(last.tournament) <=> WellFormedTournament(last.tournament)
        /\ ~WellFormedTournament(last.tournament) =>
                /\ ~last.ok
                /\ last.game = NoGame
                /\ ~last.saved
                /\ games = last.games
                /\ lbFile = last.file

\* a result whose only discrepancy is a score for a non-contender is rejected
\* by an import into a store that holds a game and a leaderboard
C24_Witness ==
    /\ last.op = "import"
    /\ ~last.ok
    /\ last.games # EmptyDir
    /\ last.file # NoFile
    /\ HasTimestamp(last.tournament)
    /\ last.tournament.contenders = Some(<<"A", "B">>)
    /\ last.tournament.final_scores # None
    /\ ScoredNames(last.tournament.final_scores[1]) = {"A", "B", "C"}
    /\ games = last.games
    /\ lbFile = last.file

\* the discrepancies a tournament result has, each with the entry
\* validate_tournament_data prints for it; a discrepancy between two fields
\* is counted only when both fields are there
Discrepancies(t) ==
    (IF t.tournament_info = None THEN {"Missing required field: tournament_info"} ELSE {})
    \cup (IF t.contenders = None THEN {"Missing required field: contenders"} ELSE {})
    \cup (IF t.final_scores = None THEN {"Missing required field: final_scores"} ELSE {})
    \cup (IF t.tournament_info # None /\ t.tournament_info[1].timestamp = None
          THEN {"Missing timestamp in tournament_info"} ELSE {})
    \cup (IF t.contenders = Some(<<>>) THEN {"No contenders found"} ELSE {})
    \cup (IF t.final_scores = Some(<<>>) THEN {"No final scores found"} ELSE {})
    \cup (IF /\ t.contenders # None
             /\ t.final_scores # None
             /\ Range(t.contenders[1]) \ ScoredNames(t.final_scores[1]) # {}
          THEN {"Missing scores for contenders"} ELSE {})
    \cup (IF /\ t.contenders # None
             /\ t.final_scores # None
             /\ ScoredNames(t.final_scores[1]) \ Range(t.contenders[1]) # {}
          THEN {"Scores found for non-contenders"} ELSE {})

\* C25: when validate_tournament_data rejects a tournament result, the error
\* list it returns has an entry for every discrepancy of the result, whatever
\* their kinds: missing top-level fields, a missing timestamp, empty
\* contenders, empty scores, contenders without scores, scores for
\* non-contenders.
C25_EveryDiscrepancyIsListed ==
    (last.op = "import" /\ ~ValidateTournamentData(last.tournament))
        => Discrepancies(last.tournament) \subseteq Range(TournamentErrors(last.tournament))

----------------------------------------------------------------------------
(* Tournament results with detailed results of every kind of attempt *)

MaxAttempts == 3

\* attempts of the detailed results: with and without the error flag, with
\* zero time and cost, correct and incorrect, on the solver's own and on
\* another's challenge, without a solver and without a challenge creator
AttemptPool ==
    { Attempt("A", "B", FALSE, 6, 2, 3, TRUE),
      Attempt("A", "B", TRUE, 4, 1, 2, FALSE),
      Attempt("A", "A", FALSE, 5, 0, 0, TRUE),
      Attempt("A", "B", FALSE, 3, 1, 2, FALSE),
      Attempt("B", "A", FALSE, 3, 1, 1, FALSE),
      Attempt("B", "", TRUE, 2, 2, 2, TRUE),
      Attempt("", "C", FALSE, 7, 1, 1, TRUE),
      Attempt("C", "A", FALSE, 0, 0, 0, FALSE) }

DetailedResults == UNION {[1..n -> AttemptPool] : n \in 0..MaxAttempts}

AttemptTournaments ==
    {Tournament("t1", Some(1), Some(<<"A", "B", "C">>),
                Some(<<Score("A", 3), Score("B", 1), Score("C", 2)>>), results) :
        results \in DetailedResults}

NextAttempts ==
    \E t \in AttemptTournaments :
        /\ last.op = "none"
        /\ Import(t, FALSE, FALSE)
        /\ UNCHANGED nops

SpecAttempts == Init /\ [][NextAttempts]_vars

\* the attempts of a solver, and those of them not flagged as erroneous
AttemptsOf(results, p) == {k \in DOMAIN results : results[k].solver = p}

CleanAttemptsOf(results, p) == {k \in AttemptsOf(results, p) : ~results[k].error}

\* the sum of a field over a set of attempts
RECURSIVE SumOver(_, _)
SumOver(values, S) ==
    IF S = {} THEN 0
    ELSE LET k == CHOOSE x \in S : TRUE IN values[k] + SumOver(values, S \ {k})

\* q is numerator/denominator when the denominator is positive, else 0
IsRatio(q, numerator, denominator) ==
    IF denominator > 0
    THEN q[2] > 0 /\ q[1] * denominator = numerator * q[2]
    ELSE q[1] = 0

\* C26: for every participant aggregate_performance_metrics reports,
\* total_attempts is the number of the solver's attempts, erroneous ones
\* included; total_tokens, total_cost and total_time are the sums over the
\* attempts not flagged as erroneous; successful_attempts is at most
\* total_attempts; and tokens_per_second, tokens_per_dollar and success_rate
\* are numerator/denominator when the denominator is positive and 0 otherwise.
C26_AggregatedMetricsOfParticipants ==
    last.op = "import" =>
        LET results == last.tournament.detailed_results
            agg == AggregatePerformanceMetrics(results)
        IN  /\ \A k \in DOMAIN results : results[k].solver # "" => results[k].solver \in DOMAIN agg
            /\ \A p \in DOMAIN agg :
                LET m == agg[p]
                    clean == CleanAttemptsOf(results, p)
                IN  /\ m.total_attempts = Cardinality(AttemptsOf(results, p))
                    /\ m.total_tokens = SumOver([k \in DOMAIN results |-> results[k].total_tokens], clean)
                    /\ m.total_cost = SumOver([k \in DOMAIN results |-> results[k].total_cost], clean)
                    /\ m.total_time = SumOver([k \in DOMAIN results |-> results[k].total_time], clean)
                    /\ m.successful_attempts <= m.total_attempts
                    /\ IsRatio(m.tokens_per_second, m.total_tokens, m.total_time)
                    /\ IsRatio(m.tokens_per_dollar, m.total_tokens, m.total_cost)
                    /\ IsRatio(m.success_rate, m.successful_attempts, m.total_attempts)

\* A has a clean attempt, an erroneous attempt and a clean attempt that took
\* no time: three attempts, the tokens of two of them
C26_Witness ==
    /\ last.op = "import"
    /\ last.ok
    /\ last.tournament.detailed_results =
            << Attempt("A", "B", FALSE, 6, 2, 3, TRUE),
               Attempt("A", "B", TRUE, 4, 1, 2, FALSE),
               Attempt("B", "", TRUE, 2, 2, 2, TRUE) >>
    /\ LET agg == AggregatePerformanceMetrics(last.tournament.detailed_results)
       IN  /\ agg["A"].total_attempts = 2
           /\ agg["A"].total_tokens = 6
           /\ agg["A"].tokens_per_second = Rat(2, 1)
           /\ agg["B"].total_attempts = 1
           /\ agg["B"].total_time = 0
           /\ agg["B"].tokens_per_second = Zero
           /\ agg["B"].success_rate = Rat(1, 1)

----------------------------------------------------------------------------
(* Two single-game updates without a lock between them *)

\* the games the two callers pass: different games, over the same and over
\* different competitors
UpdaterGames ==
    { Game(Some(UserId("g1")), Some(1), Some(<<"A", "B">>), Some(<<0, 1>>)),
      Game(Some(UserId("g2")), Some(1), Some(<<"B", "A">>), Some(<<0, 1>>)),
      Game(Some(UserId("g3")), Some(2), Some(<<"C", "D">>), Some(<<0, 0>>)),
      Game(Some(UserId("g4")), Some(2), Some(<<"A", "C", "B">>), Some(<<1, 0, 2>>)) }

\* the leaderboard file before the two calls: none, or the file one game left
UpdaterBases ==
    {NoFile,
     UpdateRatingsFromGame(NoFile, Game(Some(UserId("g0")), Some(1),
                                        Some(<<"B", "C">>), Some(<<0, 1>>))).file}

InitUpdaters ==
    /\ games = EmptyDir
    /\ lbFile \in UpdaterBases
    /\ last = NoLast
    /\ nops = 0
    /\ writer = Idle
    /\ seen = NotSeen
    /\ updaters = [NoUpdaters EXCEPT !.base = lbFile]

Other(u) == 3 - u

\* the update has loaded the leaderboard and has not yet saved it
InFlight(x) == x.pc \in {"loaded", "opened"}

\* update_leaderboard_from_game(g) is called
Call(u, g) ==
    /\ updaters.of[u].pc = "idle"
    /\ updaters.of[Other(u)].game # g
    /\ updaters' = [updaters EXCEPT !.of[u] = [pc |-> "start", game |-> g, models |-> <<>>]]
    /\ UNCHANGED <<games, lbFile, last, nops, writer, seen>>

\* update_ratings_from_game up to _save_leaderboard: _load_leaderboard reads
\* the file (json.load raises on a file without a complete document) and the
\* new models are computed from what was read
Load(u) ==
    /\ updaters.of[u].pc = "start"
    /\ updaters' =
            IF UpdateAccepts(lbFile, updaters.of[u].game)
            THEN [updaters EXCEPT
                    !.of[u].pc = "loaded",
                    !.of[u].models = UpdatedModels(LoadLeaderboard(lbFile), updaters.of[u].game),
                    !.overlapped = @ \/ InFlight(updaters.of[Other(u)])]
            ELSE [updaters EXCEPT !.of[u].pc = "failed"]
    /\ UNCHANGED <<games, lbFile, last, nops, writer, seen>>

\* _save_leaderboard: open(LEADERBOARD_FILE, 'w') empties the file
OpenToSave(u) ==
    /\ updaters.of[u].pc = "loaded"
    /\ lbFile' = Truncated
    /\ updaters' = [updaters EXCEPT !.of[u].pc = "opened"]
    /\ UNCHANGED <<games, last, nops, writer, seen>>

\* the document the update writes back without its changes
LoadedDocument(x, base) == base

\* the document _save_leaderboard dumps: the models of this update
SavedDocument(x, base) == FileOf(x.models)

\* _save_leaderboard: json.dump from the start of the file, and the file is
\* closed. When the other update has dumped since this one opened the file,
\* this dump overwrites the other's text, which leaves this document or, when
\* the other's text was longer, no complete document.
DumpToSave(u) ==
    /\ updaters.of[u].pc = "opened"
    /\ \/ lbFile' = SavedDocument(updaters.of[u], updaters.base)
       \/ lbFile.kind = "json" /\ lbFile' = Truncated
    /\ updaters' = [updaters EXCEPT !.of[u].pc = "done"]
    /\ UNCHANGED <<games, last, nops, writer, seen>>

NextUpdaters ==
    \E u \in {1, 2} :
        \/ \E g \in UpdaterGames : Call(u, g)
        \/ Load(u)
        \/ OpenToSave(u)
        \/ DumpToSave(u)

SpecUpdaters == InitUpdaters /\ [][NextUpdaters]_vars

\* the leaderboard after the two updates, one after the other, in both orders
SerialResults(base, g1, g2) ==
    { UpdateRatingsFromGame(UpdateRatingsFromGame(base, g1).file, g2).file,
      UpdateRatingsFromGame(UpdateRatingsFromGame(base, g2).file, g1).file }

\* the number of the two games that name a competitor
GamesNaming(name, g1, g2) ==
    (IF name \in Range(g1.participants[1]) THEN 1 ELSE 0)
    + (IF name \in Range(g2.participants[1]) THEN 1 ELSE 0)

GamesPlayedIn(file, name) ==
    IF \E k \in DOMAIN Models(file) : Models(file)[k].name = name
    THEN Models(file)[CHOOSE k \in DOMAIN Models(file) : Models(file)[k].name = name].games_played
    ELSE 0

\* both games are in the leaderboard: every competitor has played as many
\* games more than before as the two games name it
BothReflected(file, base, g1, g2) ==
    /\ file.kind = "json"
    /\ \A name \in Range(g1.participants[1]) \cup Range(g2.participants[1]) :
            GamesPlayedIn(file, name) = GamesPlayedIn(base, name) + GamesNaming(name, g1, g2)

BothDone == updaters.of[1].pc = "done" /\ updaters.of[2].pc = "done"

\* C27: the leaderboard is right only under single-writer execution. When
\* two single-game updates for different games have both returned and one
\* of them loaded the leaderboard while the other was between its load and
\* its save, the persisted leaderboard holds at most one of the two games
\* and is the result of no serial order of the two updates; when neither
\* loaded while the other was in flight, both games are reflected and the
\* leaderboard is the result of a serial order.
C27_LostUpdateUnlessSerialized ==
    BothDone =>
        LET g1 == updaters.of[1].game
            g2 == updaters.of[2].game
            base == updaters.base
        IN  IF updaters.overlapped
            THEN /\ lbFile \notin SerialResults(base, g1, g2)
                 /\ ~BothReflected(lbFile, base, g1, g2)
                 /\ lbFile.kind = "json" =>
                        lbFile \in {UpdateRatingsFromGame(base, g1).file,
                                    UpdateRatingsFromGame(base, g2).file}
            ELSE /\ lbFile \in SerialResults(base, g1, g2)
                 /\ BothReflected(lbFile, base, g1, g2)

\* both updates loaded the same leaderboard, both saved, and the leaderboard
\* is that of the first game alone
C27_Witness ==
    /\ BothDone
    /\ updaters.overlapped
    /\ updaters.base # NoFile
    /\ lbFile = UpdateRatingsFromGame(updaters.base, updaters.of[1].game).file
    /\ lbFile \notin SerialResults(updaters.base, updaters.of[1].game, updaters.of[2].game)
    /\ \E name \in Range(updaters.of[2].game.participants[1]) :
            GamesPlayedIn(lbFile, name) = GamesPlayedIn(updaters.base, name)

----------------------------------------------------------------------------
(* Rebuilding the leaderboard after the test data was cleared *)

RebuildGames ==
    { Game(Some(UserId("g1")), Some(1), Some(<<"A", "B">>), Some(<<0, 1>>)),
      Game(Some(UserId("g2")), Some(2), Some(<<"B", "C">>), Some(<<0, 0>>)),
      Game(Some(UserId("g3")), Some(1), Some(<<"C", "A", "B">>), Some(<<0, 1, 2>>)),
      Game(Some(UserId("g4")), Some(2), Some(<<"A">>), Some(<<0>>)) }

ClockAtRebuild == {2}

\* clear_test_data.py main: clear_game_files removes every game file unless
\* --keep-games, reset_leaderboard writes an empty leaderboard unless
\* --keep-leaderboard
ClearTestData(keepGames, keepLeaderboard) ==
    /\ games' = IF keepGames THEN games ELSE EmptyDir
    /\ lbFile' = IF keepLeaderboard THEN lbFile ELSE FileOf(<<>>)
    /\ last' = After("clear")
    /\ UNCHANGED <<writer, seen, updaters>>

\* the store the operations start from: empty, or as one submission left it
InitRebuild ==
    /\ \/ games = EmptyDir /\ lbFile = NoFile
       \/ \E g \in RebuildGames :
            LET game == CompleteGame(EmptyDir, g, 1)
            IN  /\ games = WriteGameFile(EmptyDir, game)
                /\ lbFile = UpdateRatingsFromGame(NoFile, game).file
    /\ last = NoLast
    /\ nops = 0
    /\ writer = Idle
    /\ seen = NotSeen
    /\ updaters = NoUpdaters

NextRebuild ==
    \/ \E g \in RebuildGames, now \in ClockAtRebuild : Tick /\ Submit(g, now)
    \/ \E keepGames \in BOOLEAN, keepLeaderboard \in BOOLEAN :
            Tick /\ ClearTestData(keepGames, keepLeaderboard)
    \/ \E order \in Orders(games) : Tick /\ Recalculate(order)

SpecRebuild == InitRebuild /\ [][NextRebuild]_vars

\* C28: recalculate_leaderboard, run when the games directory holds no game
\* record, leaves the persisted leaderboard with an empty models list, the
\* fold of the empty history, whatever entries it held before the call.
C28_RebuildFromEmptyHistoryIsEmpty ==
    (last.op = "recalculate" /\ last.games = EmptyDir) => Models(lbFile) = <<>>

----------------------------------------------------------------------------
(* What a single-game update leaves alone *)

\* the entries of competitors the game does not name
Bystanders(models, g) ==
    {k \in DOMAIN models : models[k].name \notin Range(g.participants[1])}

SameEntry(a, b) ==
    /\ a.name = b.name
    /\ a.mu = b.mu
    /\ a.sigma = b.sigma
    /\ a.conservative_rating = b.conservative_rating
    /\ a.games_played = b.games_played
    /\ a.wins = b.wins
    /\ a.losses = b.losses
    /\ a.draws = b.draws
    /\ a.avg_total_cost = b.avg_total_cost
    /\ a.avg_tokens_per_second = b.avg_tokens_per_second

\* C29: a successful update_ratings_from_game changes only the entries of
\* the competitors named in the game's participants: every other entry is
\* in the saved list once, with the same name, mu, sigma,
\* conservative_rating, games_played, wins, losses, draws and averages, and
\* no entry appears for a competitor that is not named; only the position
\* of such an entry may differ.
C29_OtherEntriesUnchanged ==
    (last.op = "update" /\ last.ok) =>
        LET old == Models(last.file)
            new == Models(lbFile)
        IN  /\ \A k \in Bystanders(old, last.game) :
                    Cardinality({j \in DOMAIN new : SameEntry(new[j], old[k])}) = 1
            /\ \A j \in Bystanders(new, last.game) :
                    \E k \in DOMAIN old : SameEntry(new[j], old[k])
            /\ Cardinality(Bystanders(new, last.game)) = Cardinality(Bystanders(old, last.game))

\* a game between two of three rated competitors moves the third to another
\* position of the list and leaves its entry as it was
C29_Witness ==
    /\ last.op = "update" /\ last.ok
    /\ \E k \in Bystanders(Models(last.file), last.game) :
        /\ Models(last.file)[k].games_played = 1
        /\ \E j \in DOMAIN Models(lbFile) :
                j # k /\ SameEntry(Models(lbFile)[j], Models(last.file)[k])

----------------------------------------------------------------------------
(* Wins and losses over the whole leaderboard *)

TotalWins(models) == SumOver([k \in DOMAIN models |-> models[k].wins], DOMAIN models)

TotalLosses(models) == SumOver([k \in DOMAIN models |-> models[k].losses], DOMAIN models)

\* C30: in every leaderboard reached from an empty store by successful game
\* updates, with or without ties and with two or more participants a game,
\* the wins of all entries add up to the same number as the losses of all
\* entries.
C30_WinsEqualLossesOverall ==
    TotalWins(Models(lbFile)) = TotalLosses(Models(lbFile))

\* two updates, the second a three-player game in which two share the best
\* rank: two wins and two losses are added to those of the first game
C30_Witness ==
    /\ last.op = "update" /\ last.ok
    /\ last.game.participants[1] = <<"C", "A", "B">>
    /\ last.game.ranks[1] = <<0, 0, 1>>
    /\ TotalWins(Models(last.file)) = 3
    /\ TotalWins(Models(lbFile)) = 5
    /\ TotalLosses(Models(lbFile)) = 5

====
